---------------------------- MODULE Spec2Model ----------------------------
(***************************************************************************)
(* Quick Cuts Text Video Generator (src/app.py).                           *)
(*                                                                         *)
(* Text is a sequence of one-character strings.  A frame is a record of    *)
(* its buffer shape and of the text lines drawn into it.  A Python float   *)
(* is a binary64 value held as a fixed-point number in limbs (see Float).  *)
(***************************************************************************)
EXTENDS Integers, Sequences, FiniteSets, TLC

VARIABLES
    script,          \* per session: the text area
    total_duration,  \* per session: the duration slider, a Float
    font_size,       \* per session: the font size slider
    format_choice,   \* per session: the selected format, as <<w, h>>
    fps,             \* per session: the selected frame rate
    pc,              \* per session: where its run of the script stands
    lines,           \* per session: lines of the handler
    final,           \* per session: final of the handler
    page,            \* per session: the elements the run has shown, in order
    download,        \* per session: the data read for the download button
    encoded,         \* per session: what write_videofile of this run has written
    runs,            \* per session: the runs started by the Generate button
    file,            \* the file quick_cuts_text.mp4 of the working directory
    fontAvailable,   \* whether ImageFont.truetype("DejaVuSans.ttf") succeeds
    call,            \* a direct call of one function: "none", "ready", "returned"
    arg,             \* its arguments
    ret              \* its return value

widgets == <<script, total_duration, font_size, format_choice, fps>>
handler == <<pc, lines, final, page, download, encoded, runs, file>>
direct  == <<call, arg, ret>>
vars    == <<widgets, handler, direct, fontAvailable>>

Nothing == [none |-> TRUE]

-----------------------------------------------------------------------------
(* Bounds of the model *)

\* longest text handed to make_text_frame on its own
MaxTextLen == 12

\* longest script of the single session
MaxScriptLen == 4

\* longest script of each of two sessions sharing the working directory
MaxSharedLen == 2

\* most lines handed to build_video on its own
MaxCuts == 7

\* runs a session starts
MaxRuns == 2

-----------------------------------------------------------------------------
(* Text *)

Whitespace == {" ", "\n", "\t"}

\* all texts of at most n characters over chars
Strings(chars, n) == UNION {[1..k -> chars] : k \in 0..n}

RECURSIVE LStrip(_)
\* str.lstrip()
LStrip(s) ==
    IF s # <<>> /\ Head(s) \in Whitespace THEN LStrip(Tail(s)) ELSE s

RECURSIVE RStrip(_)
\* str.rstrip()
RStrip(s) ==
    IF s # <<>> /\ s[Len(s)] \in Whitespace
    THEN RStrip(SubSeq(s, 1, Len(s) - 1))
    ELSE s

\* str.strip()
Strip(s) == RStrip(LStrip(s))

RECURSIVE SplitOn(_, _, _)
\* str.split(sep) for a one-character sep: cur is the piece being read
SplitOn(s, sep, cur) ==
    IF s = <<>> THEN <<cur>>
    ELSE IF Head(s) = sep THEN <<cur>> \o SplitOn(Tail(s), sep, <<>>)
    ELSE SplitOn(Tail(s), sep, Append(cur, Head(s)))

RECURSIVE SplitWords(_, _)
\* str.split(): the maximal runs of non-whitespace characters, in order
SplitWords(s, cur) ==
    IF s = <<>> THEN (IF cur = <<>> THEN <<>> ELSE <<cur>>)
    ELSE IF Head(s) \in Whitespace
         THEN (IF cur = <<>> THEN <<>> ELSE <<cur>>) \o SplitWords(Tail(s), <<>>)
         ELSE SplitWords(Tail(s), Append(cur, Head(s)))

-----------------------------------------------------------------------------
(* make_text_frame *)

DefaultMargin == 80
DefaultLineGap == 20

\* advance of a DejaVu Sans glyph, in thousandths of the font size
GlyphAdvance(c) ==
    CASE c = "W" -> 989
      [] c = "a" -> 613
      [] c = "b" -> 635
      [] c = "i" -> 278
      [] OTHER   -> 318

\* glyph width of the built-in bitmap font of ImageFont.load_default()
DefaultGlyphWidth == 6

\* the font of make_text_frame: DejaVu Sans at font_size, else the built-in one
LoadFont(available, size) ==
    IF available THEN [truetype |-> TRUE, size |-> size]
    ELSE [truetype |-> FALSE, size |-> 0]

RECURSIVE SumAdvance(_)
SumAdvance(s) ==
    IF s = <<>> THEN 0 ELSE GlyphAdvance(Head(s)) + SumAdvance(Tail(s))

\* text_width(s): bbox[2] - bbox[0] of the rendered string
text_width(s, font) ==
    IF font.truetype THEN (SumAdvance(s) * font.size) \div 1000
    ELSE DefaultGlyphWidth * Len(s)

\* height of a DejaVu Sans glyph above the baseline, in thousandths of the
\* font size (none of the glyphs here reaches below it)
GlyphHeight(c) ==
    CASE c = "W" -> 729
      [] c = "a" -> 560
      [] c = "b" -> 760
      [] c = "i" -> 760
      [] OTHER   -> 0

\* glyph height of the built-in bitmap font
DefaultGlyphHeight == 11

RECURSIVE MaxHeight(_)
MaxHeight(s) ==
    IF s = <<>> THEN 0
    ELSE LET rest == MaxHeight(Tail(s))
         IN  IF GlyphHeight(Head(s)) > rest THEN GlyphHeight(Head(s)) ELSE rest

\* bbox[3] - bbox[1] of the rendered string
text_height(s, font) ==
    IF font.truetype THEN (MaxHeight(s) * font.size) \div 1000
    ELSE DefaultGlyphHeight

RECURSIVE SumHeights(_, _)
\* sum(line_heights)
SumHeights(wrapped, font) ==
    IF wrapped = <<>> THEN 0
    ELSE text_height(Head(wrapped), font) + SumHeights(Tail(wrapped), font)

\* One pass of the loop body: st = [lines, current]
WrapStepGreedyOff(st, word, font, max_width) ==
    [lines   |-> IF st.current # <<>> THEN Append(st.lines, st.current) ELSE st.lines,
     current |-> word]

WrapStepNoLimit(st, word, font, max_width) ==
    [lines   |-> st.lines,
     current |-> Strip(st.current \o <<" ">> \o word)]

WrapStepDropsWide(st, word, font, max_width) ==
    LET test == Strip(st.current \o <<" ">> \o word) IN
    IF text_width(test, font) <= max_width
    THEN [lines |-> st.lines, current |-> test]
    ELSE [lines   |-> IF st.current # <<>> THEN Append(st.lines, st.current) ELSE st.lines,
          current |-> IF text_width(word, font) <= max_width THEN word ELSE <<>>]

WrapStep(st, word, font, max_width) ==
    LET test == Strip(st.current \o <<" ">> \o word) IN
    IF text_width(test, font) <= max_width
    THEN [lines |-> st.lines, current |-> test]
    ELSE [lines   |-> IF st.current # <<>> THEN Append(st.lines, st.current) ELSE st.lines,
          current |-> word]

RECURSIVE WrapLoop(_, _, _, _)
\* for word in words: ...
WrapLoop(words, st, font, max_width) ==
    IF words = <<>> THEN st
    ELSE WrapLoop(Tail(words), WrapStep(st, Head(words), font, max_width), font, max_width)

\* the lines list of make_text_frame after the loop and the final append
WrapLines(text, font, max_width) ==
    LET st == WrapLoop(SplitWords(text, <<>>), [lines |-> <<>>, current |-> <<>>],
                       font, max_width)
    IN  IF st.current # <<>> THEN Append(st.lines, st.current) ELSE st.lines

\* make_text_frame(text, w, h, font_size): the buffer's shape, the lines drawn
\* and the x and y at which each is drawn
make_text_frame(text, w, h, size, available) ==
    LET font      == LoadFont(available, size)
        max_width == w - 2 * DefaultMargin
        wrapped   == WrapLines(text, font, max_width)
        total_text_h == SumHeights(wrapped, font) + (Len(wrapped) - 1) * DefaultLineGap
        y0        == (h - total_text_h) \div 2
    IN  [shape |-> <<h, w>>,
         lines |-> wrapped,
         xs    |-> [i \in 1..Len(wrapped) |-> (w - text_width(wrapped[i], font)) \div 2],
         ys    |-> [i \in 1..Len(wrapped) |->
                       y0 + SumHeights(SubSeq(wrapped, 1, i - 1), font)
                          + (i - 1) * DefaultLineGap],
         zoom  |-> Nothing]

-----------------------------------------------------------------------------
(* zoom_frame_pil *)

\* A zoom factor is the float z / ZoomDen, z an integer.  With ZoomDen a power
\* of two the factor and its products with w and h are exact binary64 values,
\* so int(w * zoom_factor) is the floor computed here; the grid is fine enough
\* to reach every size a factor of [1.0, 1.06] gives.
ZoomDen == 32768

\* the values random.uniform(1.00, 1.06) can return, on the grid
ZoomFactors == {z \in ZoomDen..((ZoomDen * 106) \div 100) : TRUE}

\* int(size * zoom_factor)
ZoomedSize(size, z) == (size * z) \div ZoomDen

CropOriginCorner(new, old) == 0

CropOriginOfCentre(new, old) == new \div 2

\* left = (new_w - w) // 2, top = (new_h - h) // 2
CropOrigin(new, old) == (new - old) \div 2

\* zoom_frame_pil(frame_np, zoom_factor, w, h): the frame itself, or the crop
\* of its enlargement; the shape of a crop is that of its box
zoom_frame_pil(frame_np, z, w, h) ==
    IF z <= ZoomDen THEN frame_np
    ELSE LET new_w == ZoomedSize(w, z)
             new_h == ZoomedSize(h, z)
             left  == CropOrigin(new_w, w)
             top   == CropOrigin(new_h, h)
             box   == <<left, top, left + w, top + h>>
         IN  [shape |-> <<box[4] - box[2], box[3] - box[1]>>,
              lines |-> frame_np.lines,
              xs    |-> frame_np.xs,
              ys    |-> frame_np.ys,
              zoom  |-> [resized |-> <<new_h, new_w>>, box |-> box]]

-----------------------------------------------------------------------------
(* Float: Python's float (IEEE 754 binary64) on the values build_video meets *)

\* bits of a binary64 significand
Precision == 53

\* A positive float below 2^16 and at least 2^-3 is a whole number of units
\* of 2^-FracBits; it is held as <<hi, mid, lo>> = hi*B^2 + mid*B + lo units,
\* B = LimbBase.
FracBits == 56
LimbBits == 20
LimbBase == 2^LimbBits

FloatZero == <<0, 0, 0>>

\* the float k / 2 (a slider position: total_duration moves in steps of 0.5)
FromHalves(k) == <<k * 2^(FracBits - 1 - 2 * LimbBits), 0, 0>>

\* the limbs of a number whose limbs may have outgrown LimbBase
Carry(f) ==
    LET mid == f[2] + (f[3] \div LimbBase)
    IN  <<f[1] + (mid \div LimbBase), mid % LimbBase, f[3] % LimbBase>>

RECURSIVE MsbIndex(_)
\* index of the highest set bit of a limb (0 for 0 and 1)
MsbIndex(x) == IF x <= 1 THEN 0 ELSE 1 + MsbIndex(x \div 2)

\* index of the highest set bit of a number
FloatMsb(f) ==
    IF f[1] > 0 THEN 2 * LimbBits + MsbIndex(f[1])
    ELSE IF f[2] > 0 THEN LimbBits + MsbIndex(f[2])
    ELSE MsbIndex(f[3])

\* Round to nearest, ties to even, at Precision significant bits: f is the
\* exact result cut at the unit, sticky says that something was cut.  In the
\* range above the bits rounded away all lie in the low limb.
RoundNearestEven(f, sticky) ==
    LET d == FloatMsb(f) - (Precision - 1) IN
    IF d <= 0 THEN f
    ELSE LET unit == 2^d
             low  == f[3] % unit
             half == unit \div 2
             odd  == ((f[3] \div unit) % 2) = 1
             up   == low > half \/ (low = half /\ (sticky \/ odd))
         IN  Carry(<<f[1], f[2], f[3] - low + (IF up THEN unit ELSE 0)>>)

\* a + b
FloatAdd(a, b) ==
    RoundNearestEven(Carry(<<a[1] + b[1], a[2] + b[2], a[3] + b[3]>>), FALSE)

\* a / n for an int n >= 1 (n is converted exactly): long division by limbs
FloatDiv(a, n) ==
    LET c2 == (a[1] % n) * LimbBase + a[2]
        c3 == (c2 % n) * LimbBase + a[3]
    IN  RoundNearestEven(<<a[1] \div n, c2 \div n, c3 \div n>>, (c3 % n) # 0)

\* a // n
FloatFloorDiv(a, n) ==
    LET q == FloatDiv(a, n)
    IN  <<q[1] - (q[1] % (2^(FracBits - 2 * LimbBits))), 0, 0>>

\* |a - b| in units, when that is below LimbBase; LimbBase otherwise
FloatDistance(a, b) ==
    IF a[1] - b[1] \notin {-1, 0, 1} THEN LimbBase
    ELSE LET top == (a[1] - b[1]) * LimbBase + (a[2] - b[2]) IN
         IF top \notin {-1, 0, 1} THEN LimbBase
         ELSE LET d == top * LimbBase + (a[3] - b[3]) IN
              IF d >= LimbBase \/ -d >= LimbBase THEN LimbBase
              ELSE IF d < 0 THEN -d ELSE d

-----------------------------------------------------------------------------
(* build_video *)

ClipLenFloorDiv(total, n) == FloatFloorDiv(total, n)

\* clip_len = total_duration / len(lines)
ClipLen(total, n) == FloatDiv(total, n)

RECURSIVE CumSum(_, _)
\* numpy.cumsum over the clip durations, from acc
CumSum(clips, acc) ==
    IF clips = <<>> THEN <<acc>>
    ELSE <<acc>> \o CumSum(Tail(clips), FloatAdd(acc, Head(clips).duration))

\* concatenate_videoclips(clips, method="compose"): the clips in order, each
\* starting where the one before ends; the duration is the last sum
concatenate_videoclips(clips) ==
    LET tt == CumSum(clips, FloatZero)
    IN  [clips       |-> clips,
         start_times |-> SubSeq(tt, 1, Len(clips)),
         duration    |-> tt[Len(tt)]]

\* the frame and clip of one pass of the loop of build_video; z is the value
\* random.uniform(1.00, 1.06) returned
MakeClip(t, z, clip_len, w, h, size, available) ==
    [frame    |-> zoom_frame_pil(make_text_frame(t, w, h, size, available), z, w, h),
     duration |-> clip_len]

BuildClipsReversed(cuts, zooms, clip_len, w, h, size, available) ==
    [i \in 1..Len(cuts) |->
        MakeClip(cuts[Len(cuts) + 1 - i], zooms[i], clip_len, w, h, size, available)]

\* clips, after the loop of build_video
BuildClips(cuts, zooms, clip_len, w, h, size, available) ==
    [i \in 1..Len(cuts) |->
        MakeClip(cuts[i], zooms[i], clip_len, w, h, size, available)]

\* build_video(lines, total_duration, w, h, font_size, fps); zooms are the
\* values random.uniform returned, one per line
build_video(cuts, total, w, h, size, rate, zooms, available) ==
    concatenate_videoclips(
        BuildClips(cuts, zooms, ClipLen(total, Len(cuts)),
                   w, h, size, available))

-----------------------------------------------------------------------------
(* The script of the page: widgets *)

Sessions == {1, 2}

Formats == {<<1080, 1920>>, <<1080, 1080>>, <<1920, 1080>>}
DefaultFormat == <<1080, 1920>>

\* st.slider("Total duration (seconds)", 8.0, 15.0, 10.0, 0.5), in halves
MinDurationHalves == 16
MaxDurationHalves == 30
DefaultDurationHalves == 20
Durations == {FromHalves(k) : k \in MinDurationHalves..MaxDurationHalves}

\* st.slider("Font size", 50, 140, 95, 5)
MinFontSize == 50
MaxFontSize == 140
DefaultFontSize == 95

\* st.selectbox("FPS", [24, 30, 60], index=1)
FpsChoices == {24, 30, 60}
DefaultFps == 30

\* the values the model lets random.uniform(1.00, 1.06) return in build_video:
\* the two ends of the range
DrawnZooms ==
    {z \in ZoomFactors : (\A y \in ZoomFactors : z <= y) \/ (\A y \in ZoomFactors : z >= y)}

-----------------------------------------------------------------------------
(* The script of the page: the Generate MP4 handler *)

RECURSIVE StripAll(_)
StripAll(raw) ==
    IF raw = <<>> THEN <<>> ELSE <<Strip(Head(raw))>> \o StripAll(Tail(raw))

ScriptLinesKeepBlank(text) == StripAll(SplitOn(text, "\n", <<>>))

RECURSIVE StripNonBlank(_)
\* [l.strip() for l in raw if l.strip()]
StripNonBlank(raw) ==
    IF raw = <<>> THEN <<>>
    ELSE (IF Strip(Head(raw)) # <<>> THEN <<Strip(Head(raw))>> ELSE <<>>)
         \o StripNonBlank(Tail(raw))

\* lines = [l.strip() for l in script.split("\n") if l.strip()]
ScriptLines(text) == StripNonBlank(SplitOn(text, "\n", <<>>))

NoFile == [status |-> "absent", data |-> Nothing, writers |-> {}]

\* the bytes write_videofile(out_path, fps=fps, codec="libx264", audio=False)
\* makes of a video
Encode(video, rate) ==
    [video |-> video, fps |-> rate, codec |-> "libx264", audio |-> FALSE]

Running == {"render", "encode", "writing", "written", "success"}

\* the button is pressed: the script runs from the top, with an empty page
Generate(s) ==
    /\ pc[s] \notin Running
    /\ runs[s] < MaxRuns
    /\ runs' = [runs EXCEPT ![s] = @ + 1]
    /\ lines' = [lines EXCEPT ![s] = ScriptLines(script[s])]
    /\ IF lines'[s] = <<>>
       THEN /\ page' = [page EXCEPT ![s] = <<"error">>]
            /\ pc' = [pc EXCEPT ![s] = "stopped"]
       ELSE /\ page' = [page EXCEPT ![s] = <<"text", "text">>]
            /\ pc' = [pc EXCEPT ![s] = "render"]
    /\ final' = [final EXCEPT ![s] = Nothing]
    /\ download' = [download EXCEPT ![s] = Nothing]
    /\ encoded' = [encoded EXCEPT ![s] = Nothing]
    /\ UNCHANGED <<widgets, file, direct, fontAvailable>>

\* final = build_video(lines, total_duration, w, h, font_size, fps)
Render(s) ==
    /\ pc[s] = "render"
    /\ \E zooms \in [1..Len(lines[s]) -> DrawnZooms] :
          final' = [final EXCEPT ![s] =
                       build_video(lines[s], total_duration[s], format_choice[s][1],
                                   format_choice[s][2], font_size[s], fps[s], zooms,
                                   fontAvailable)]
    /\ pc' = [pc EXCEPT ![s] = "encode"]
    /\ UNCHANGED <<widgets, lines, page, download, encoded, runs, file, direct,
                   fontAvailable>>

\* an exception leaves the run: the page shows it and the run is over
Raise(s) ==
    /\ page' = [page EXCEPT ![s] = Append(@, "exception")]
    /\ pc' = [pc EXCEPT ![s] = "crashed"]

\* build_video raises
RenderFails(s) ==
    /\ pc[s] = "render"
    /\ Raise(s)
    /\ UNCHANGED <<widgets, lines, final, download, encoded, runs, file, direct,
                   fontAvailable>>

\* write_videofile: the encoder opens out_path, which empties it
WriteOpen(s) ==
    /\ pc[s] = "encode"
    /\ file' = IF file.writers = {}
               THEN [status |-> "partial", data |-> Encode(final[s], fps[s]),
                     writers |-> {s}]
               ELSE [status |-> "garbled", data |-> Nothing,
                     writers |-> file.writers \cup {s}]
    /\ pc' = [pc EXCEPT ![s] = "writing"]
    /\ UNCHANGED <<widgets, lines, final, page, download, encoded, runs, direct,
                   fontAvailable>>

\* write_videofile raises before the encoder has opened out_path
WriteCannotOpen(s) ==
    /\ pc[s] = "encode"
    /\ Raise(s)
    /\ UNCHANGED <<widgets, lines, final, download, encoded, runs, file, direct,
                   fontAvailable>>

WriteFailsSwallowed(s) ==
    /\ pc[s] = "writing"
    /\ file' = [file EXCEPT !.writers = @ \ {s}]
    /\ pc' = [pc EXCEPT ![s] = "written"]
    /\ UNCHANGED <<widgets, lines, final, page, download, encoded, runs, direct,
                   fontAvailable>>

\* write_videofile raises while the encoder writes: what it wrote stays
WriteFails(s) ==
    /\ pc[s] = "writing"
    /\ file' = [file EXCEPT !.writers = @ \ {s}]
    /\ Raise(s)
    /\ UNCHANGED <<widgets, lines, final, download, encoded, runs, direct,
                   fontAvailable>>

\* write_videofile returns.  The file holds this run's bytes when no other
\* encoder had out_path open meanwhile; when one had, what the two writers
\* left is either this run's bytes or neither's.
WriteClose(s) ==
    /\ pc[s] = "writing"
    /\ \/ /\ file.status = "partial"
          /\ file.writers = {s}
          /\ file' = [status |-> "complete", data |-> Encode(final[s], fps[s]),
                      writers |-> {}]
       \/ /\ ~(file.status = "partial" /\ file.writers = {s})
          /\ \/ file' = [status |-> "garbled", data |-> Nothing,
                         writers |-> file.writers \ {s}]
             \/ file' = [status |-> IF file.writers \ {s} = {} THEN "complete"
                                    ELSE "partial",
                         data |-> Encode(final[s], fps[s]),
                         writers |-> file.writers \ {s}]
    /\ encoded' = [encoded EXCEPT ![s] = Encode(final[s], fps[s])]
    /\ pc' = [pc EXCEPT ![s] = "written"]
    /\ UNCHANGED <<widgets, lines, final, page, download, runs, direct, fontAvailable>>

\* st.success("Done.")
Success(s) ==
    /\ pc[s] = "written"
    /\ page' = [page EXCEPT ![s] = Append(@, "success")]
    /\ pc' = [pc EXCEPT ![s] = "success"]
    /\ UNCHANGED <<widgets, lines, final, download, encoded, runs, file, direct,
                   fontAvailable>>

\* with open(out_path, "rb") as f: st.download_button(..., data=f, ...);
\* open raises when there is no such file
Download(s) ==
    /\ pc[s] = "success"
    /\ IF file.status = "absent"
       THEN /\ Raise(s)
            /\ UNCHANGED download
       ELSE /\ download' = [download EXCEPT ![s] =
                                [status |-> file.status, data |-> file.data]]
            /\ page' = [page EXCEPT ![s] = Append(@, "download")]
            /\ pc' = [pc EXCEPT ![s] = "done"]
    /\ UNCHANGED <<widgets, lines, final, encoded, runs, file, direct, fontAvailable>>

Step(s) ==
    \/ Generate(s)
    \/ Render(s)
    \/ RenderFails(s)
    \/ WriteOpen(s)
    \/ WriteCannotOpen(s)
    \/ WriteClose(s)
    \/ WriteFails(s)
    \/ Success(s)
    \/ Download(s)

ScriptChars == {"a", " ", "\n"}

\* no run has started; nothing has been written
HandlerIdle ==
    /\ pc = [s \in Sessions |-> "idle"]
    /\ lines = [s \in Sessions |-> <<>>]
    /\ final = [s \in Sessions |-> Nothing]
    /\ page = [s \in Sessions |-> <<>>]
    /\ download = [s \in Sessions |-> Nothing]
    /\ encoded = [s \in Sessions |-> Nothing]
    /\ runs = [s \in Sessions |-> 0]
    /\ file = NoFile

\* the widgets other than the text area at their defaults
WidgetDefaults ==
    /\ total_duration = [s \in Sessions |-> FromHalves(DefaultDurationHalves)]
    /\ font_size = [s \in Sessions |-> DefaultFontSize]
    /\ format_choice = [s \in Sessions |-> DefaultFormat]
    /\ fps = [s \in Sessions |-> DefaultFps]

NoCall == call = "none" /\ arg = Nothing /\ ret = Nothing

\* One session: session 1 has some script in its text area and has chosen a
\* format and a frame rate
Init ==
    /\ \E t \in Strings(ScriptChars, MaxScriptLen) :
          script = [s \in Sessions |-> IF s = 1 THEN t ELSE <<>>]
    /\ total_duration = [s \in Sessions |-> FromHalves(DefaultDurationHalves)]
    /\ font_size = [s \in Sessions |-> DefaultFontSize]
    /\ \E f \in Formats :
          format_choice = [s \in Sessions |-> IF s = 1 THEN f ELSE DefaultFormat]
    /\ \E r \in FpsChoices :
          fps = [s \in Sessions |-> IF s = 1 THEN r ELSE DefaultFps]
    /\ HandlerIdle
    /\ fontAvailable \in BOOLEAN
    /\ NoCall

Next == Step(1)

Spec == Init /\ [][Next]_vars

\* Two sessions of one server process, hence one working directory
InitShared ==
    /\ script \in [Sessions -> Strings(ScriptChars, MaxSharedLen)]
    /\ WidgetDefaults
    /\ HandlerIdle
    /\ fontAvailable \in BOOLEAN
    /\ NoCall

NextShared == \E s \in Sessions : Step(s)

SpecShared == InitShared /\ [][NextShared]_vars

-----------------------------------------------------------------------------
(* Direct calls of make_text_frame, zoom_frame_pil and build_video *)

TextChars == {"W", " "}

\* the widgets and the handler are at rest during a direct call
AtRest ==
    /\ script = [s \in Sessions |-> <<>>]
    /\ WidgetDefaults
    /\ HandlerIdle

InitWrap ==
    /\ AtRest
    /\ fontAvailable \in BOOLEAN
    /\ call = "ready"
    /\ arg \in {[fn |-> "make_text_frame", text |-> t, w |-> f[1], h |-> f[2],
                 font_size |-> n] :
                    t \in Strings(TextChars, MaxTextLen), f \in Formats,
                    n \in {MinFontSize, DefaultFontSize, MaxFontSize}}
    /\ ret = Nothing

CallMakeTextFrame ==
    /\ call = "ready"
    /\ arg.fn = "make_text_frame"
    /\ ret' = make_text_frame(arg.text, arg.w, arg.h, arg.font_size, fontAvailable)
    /\ call' = "returned"
    /\ UNCHANGED <<widgets, handler, fontAvailable, arg>>

NextWrap == CallMakeTextFrame

SpecWrap == InitWrap /\ [][NextWrap]_vars

InitZoom ==
    /\ AtRest
    /\ fontAvailable \in BOOLEAN
    /\ call = "ready"
    /\ arg \in {[fn |-> "zoom_frame_pil",
                 frame_np |-> make_text_frame(<<"a">>, f[1], f[2], DefaultFontSize,
                                              fontAvailable),
                 zoom_factor |-> z, w |-> f[1], h |-> f[2]] :
                    z \in ZoomFactors, f \in Formats}
    /\ ret = Nothing

CallZoomFramePil ==
    /\ call = "ready"
    /\ arg.fn = "zoom_frame_pil"
    /\ ret' = zoom_frame_pil(arg.frame_np, arg.zoom_factor, arg.w, arg.h)
    /\ call' = "returned"
    /\ UNCHANGED <<widgets, handler, fontAvailable, arg>>

NextZoom == CallZoomFramePil

SpecZoom == InitZoom /\ [][NextZoom]_vars

\* n lines, each different from the others: "a", "aa", ...
Cuts(n) == [i \in 1..n |-> [j \in 1..i |-> "a"]]

InitBuild ==
    /\ AtRest
    /\ fontAvailable \in BOOLEAN
    /\ call = "ready"
    /\ arg \in {[fn |-> "build_video", lines |-> Cuts(n), total_duration |-> d,
                 w |-> DefaultFormat[1], h |-> DefaultFormat[2],
                 font_size |-> DefaultFontSize, fps |-> r] :
                    n \in 1..MaxCuts, d \in Durations, r \in FpsChoices}
    /\ ret = Nothing

CallBuildVideo ==
    /\ call = "ready"
    /\ arg.fn = "build_video"
    /\ \E zooms \in [1..Len(arg.lines) -> DrawnZooms] :
          ret' = build_video(arg.lines, arg.total_duration, arg.w, arg.h,
                             arg.font_size, arg.fps, zooms, fontAvailable)
    /\ call' = "returned"
    /\ UNCHANGED <<widgets, handler, fontAvailable, arg>>

NextBuild == CallBuildVideo

SpecBuild == InitBuild /\ [][NextBuild]_vars

-----------------------------------------------------------------------------
(* make_text_frame: the word wrap *)

\* C3: every line make_text_frame draws is at most w - 2*margin wide, unless
\* the line is one single word that alone is wider than that.
C3_WrappedLinesFit ==
    (call = "returned" /\ arg.fn = "make_text_frame") =>
        LET font      == LoadFont(fontAvailable, arg.font_size)
            max_width == arg.w - 2 * DefaultMargin
        IN  \A i \in 1..Len(ret.lines) :
                \/ text_width(ret.lines[i], font) <= max_width
                \/ /\ Len(SplitWords(ret.lines[i], <<>>)) = 1
                   /\ text_width(SplitWords(ret.lines[i], <<>>)[1], font) > max_width

\* a frame with a line of several words and, on another line, a word wider
\* than the frame allows
C3_Witness ==
    /\ call = "returned" /\ arg.fn = "make_text_frame"
    /\ \E i, j \in 1..Len(ret.lines) :
          /\ Len(SplitWords(ret.lines[i], <<>>)) >= 2
          /\ text_width(ret.lines[j], LoadFont(fontAvailable, arg.font_size))
                > arg.w - 2 * DefaultMargin

\* the first word of a line
FirstWord(line) == SplitWords(line, <<>>)[1]

\* C8: the wrap is greedy: a line followed by a space and the first word of
\* the next line is wider than w - 2*margin.
C8_WrapIsGreedy ==
    (call = "returned" /\ arg.fn = "make_text_frame") =>
        LET font      == LoadFont(fontAvailable, arg.font_size)
            max_width == arg.w - 2 * DefaultMargin
        IN  \A i \in 1..(Len(ret.lines) - 1) :
                text_width(ret.lines[i] \o <<" ">> \o FirstWord(ret.lines[i + 1]), font)
                    > max_width

\* three lines, the first one of two words
C8_Witness ==
    /\ call = "returned" /\ arg.fn = "make_text_frame"
    /\ Len(ret.lines) >= 3
    /\ Len(SplitWords(ret.lines[1], <<>>)) >= 2

RECURSIVE WordsOfLines(_)
\* the lines split on single spaces, joined in line order
WordsOfLines(wrapped) ==
    IF wrapped = <<>> THEN <<>>
    ELSE SplitOn(Head(wrapped), " ", <<>>) \o WordsOfLines(Tail(wrapped))

\* C9: the lines, split on spaces and joined in order, are the words of the
\* text, each once, in order and whole; no line is empty.
C9_WrapKeepsWords ==
    (call = "returned" /\ arg.fn = "make_text_frame") =>
        /\ WordsOfLines(ret.lines) = SplitWords(arg.text, <<>>)
        /\ \A i \in 1..Len(ret.lines) : ret.lines[i] # <<>>

\* a text with surplus spaces whose over-wide word got a line of its own
\* between two others
C9_Witness ==
    /\ call = "returned" /\ arg.fn = "make_text_frame"
    /\ Len(ret.lines) = 3
    /\ text_width(ret.lines[2], LoadFont(fontAvailable, arg.font_size))
          > arg.w - 2 * DefaultMargin
    /\ Head(arg.text) = " "

-----------------------------------------------------------------------------
(* zoom_frame_pil: the crop *)

\* C4: for a zoom factor in [1.0, 1.06] and each format, zoom_frame_pil
\* returns a buffer of shape (h, w), its crop window lies inside the resized
\* image, and for the factor 1.0 it returns the frame it was given.
C4_ZoomKeepsShape ==
    (call = "returned" /\ arg.fn = "zoom_frame_pil") =>
        /\ ret.shape = <<arg.h, arg.w>>
        /\ arg.zoom_factor = ZoomDen => ret = arg.frame_np
        /\ arg.zoom_factor > ZoomDen =>
              /\ ret.zoom.resized = <<(arg.h * arg.zoom_factor) \div ZoomDen,
                                      (arg.w * arg.zoom_factor) \div ZoomDen>>
              /\ 0 <= ret.zoom.box[1] /\ ret.zoom.box[3] <= ret.zoom.resized[2]
              /\ 0 <= ret.zoom.box[2] /\ ret.zoom.box[4] <= ret.zoom.resized[1]
              /\ ret.zoom.box[3] - ret.zoom.box[1] = arg.w
              /\ ret.zoom.box[4] - ret.zoom.box[2] = arg.h

\* the largest factor, on the wide format: the image was enlarged and cropped
C4_Witness ==
    /\ call = "returned" /\ arg.fn = "zoom_frame_pil"
    /\ arg.zoom_factor = (ZoomDen * 106) \div 100
    /\ arg.w = 1920
    /\ ret.zoom # Nothing
    /\ ret.zoom.resized = <<1144, 2035>>

\* the columns and rows the crop removes on each side
RemovedLeft(frame)   == frame.zoom.box[1]
RemovedRight(frame)  == frame.zoom.resized[2] - frame.zoom.box[3]
RemovedTop(frame)    == frame.zoom.box[2]
RemovedBottom(frame) == frame.zoom.resized[1] - frame.zoom.box[4]

\* C10 as stated: for a zoom factor above 1.0 the crop removes as many
\* columns on the left as on the right, and as many rows at the top as at
\* the bottom.
C10_EqualMargins ==
    (call = "returned" /\ arg.fn = "zoom_frame_pil" /\ arg.zoom_factor > ZoomDen) =>
        /\ RemovedLeft(ret) = RemovedRight(ret)
        /\ RemovedTop(ret) = RemovedBottom(ret)

\* C10 as amended: the crop removes floor((new_w - w)/2) columns on the left
\* and floor((new_h - h)/2) rows at the top, and on the right and at the
\* bottom the same number or one more (one more when the difference is odd).
C10_MarginsWithinOne ==
    (call = "returned" /\ arg.fn = "zoom_frame_pil" /\ arg.zoom_factor > ZoomDen) =>
        LET dw == ret.zoom.resized[2] - arg.w
            dh == ret.zoom.resized[1] - arg.h
        IN  /\ 2 * RemovedLeft(ret) \in {dw, dw - 1}
            /\ 2 * RemovedTop(ret) \in {dh, dh - 1}
            /\ RemovedRight(ret) - RemovedLeft(ret) = dw % 2
            /\ RemovedBottom(ret) - RemovedTop(ret) = dh % 2

\* an odd surplus of columns and an even, positive surplus of rows
C10_Witness ==
    /\ call = "returned" /\ arg.fn = "zoom_frame_pil" /\ arg.zoom_factor > ZoomDen
    /\ RemovedRight(ret) = RemovedLeft(ret) + 1
    /\ RemovedBottom(ret) = RemovedTop(ret)
    /\ RemovedTop(ret) > 0

-----------------------------------------------------------------------------
(* build_video: the clips and their durations *)

\* n times the float c, exactly, as a number of units
Times(n, c) == Carry(<<n * c[1], n * c[2], n * c[3]>>)

\* N * 2^-52 * total in units, for a total that is a number of halves (its
\* units are total[1] * 2^(2 * LimbBits))
SumTolerance(n, total) == n * (total[1] \div (2^(Precision - 1 - 2 * LimbBits)))

\* C2 as stated: build_video makes N clips of the same duration
\* total_duration / N, and the durations add up to total_duration.
C2_DurationsAddUpExactly ==
    (call = "returned" /\ arg.fn = "build_video") =>
        /\ Len(ret.clips) = Len(arg.lines)
        /\ \A i \in 1..Len(ret.clips) : ret.clips[i].duration = ret.clips[1].duration
        /\ ret.duration = arg.total_duration

\* C2 as amended: build_video makes N clips of one and the same duration,
\* the float nearest to total_duration / N, and their float sum is
\* total_duration to within N * 2^-52 * total_duration; for 3 lines and 9.0
\* seconds every clip lasts exactly 3.0 and the sum is exactly 9.0.
C2_DurationsAddUpRounded ==
    (call = "returned" /\ arg.fn = "build_video") =>
        LET n == Len(arg.lines)
            c == ret.clips[1].duration
        IN  /\ Len(ret.clips) = n
            /\ \A i \in 1..n : ret.clips[i].duration = c
            /\ 2 * FloatDistance(Times(n, c), arg.total_duration)
                  <= n * 2^(FloatMsb(c) - (Precision - 1))
            /\ FloatDistance(ret.duration, arg.total_duration)
                  <= SumTolerance(n, arg.total_duration)
            /\ (n = 3 /\ arg.total_duration = FromHalves(18)) =>
                  /\ c = FromHalves(6)
                  /\ ret.duration = arg.total_duration

\* six clips of 8.0 seconds in all: the sum of the durations is not 8.0
C2_Witness ==
    /\ call = "returned" /\ arg.fn = "build_video"
    /\ Len(ret.clips) = 6
    /\ arg.total_duration = FromHalves(16)
    /\ ret.duration # arg.total_duration

-----------------------------------------------------------------------------
(* The Generate MP4 handler *)

\* a script that is empty or holds only blank lines
IsBlank(text) == \A i \in 1..Len(text) : text[i] \in Whitespace

\* C1: a run on an empty or all-blank script shows the error and stops:
\* build_video and write_videofile are not called, nothing is written and no
\* download is offered.
C1_BlankScriptStops ==
    \A s \in Sessions :
        (runs[s] > 0 /\ IsBlank(script[s])) =>
            /\ pc[s] = "stopped"
            /\ page[s] = <<"error">>
            /\ final[s] = Nothing
            /\ encoded[s] = Nothing
            /\ download[s] = Nothing
            /\ file = NoFile

\* a run on a script of blank lines only has stopped
C1_Witness ==
    /\ pc[1] = "stopped"
    /\ Len(script[1]) >= 3
    /\ \E i \in 1..Len(script[1]) : script[1][i] = "\n"
    /\ \E i \in 1..Len(script[1]) : script[1][i] = " "

\* C5: "Done" and the download are shown only after write_videofile of the
\* same run has returned; a run in which rendering or encoding fails shows
\* neither and offers no file, whatever an earlier run left on disk.
C5_SuccessOnlyAfterWrite ==
    \A s \in Sessions :
        /\ (\E i \in 1..Len(page[s]) : page[s][i] = "success") => encoded[s] # Nothing
        /\ (\E i \in 1..Len(page[s]) : page[s][i] = "download") =>
              /\ encoded[s] # Nothing
              /\ download[s] # Nothing
              /\ \E i \in 1..Len(page[s]) : page[s][i] = "success"
        /\ download[s] # Nothing => encoded[s] # Nothing
        /\ pc[s] = "crashed" =>
              /\ \A i \in 1..Len(page[s]) : page[s][i] \notin {"success", "download"}
              /\ download[s] = Nothing

\* a second run has failed while the file of the first, complete, is on disk
C5_Witness ==
    /\ pc[1] = "crashed"
    /\ runs[1] = 2
    /\ file.status = "complete"
    /\ download[1] = Nothing

\* C6 as stated: whatever the interleaving of two runs, the bytes a run
\* offers for download are the bytes that run encoded.
C6_OffersOwnBytes ==
    \A s \in Sessions :
        download[s] # Nothing =>
            download[s] = [status |-> "complete", data |-> encoded[s]]

\* the non-blank lines of a script, trimmed, in order
NonBlankTrimmed(text) ==
    LET raw == SplitOn(text, "\n", <<>>)
        trimmed == [i \in 1..Len(raw) |-> Strip(raw[i])]
    IN  SelectSeq(trimmed, LAMBDA l : l # <<>>)

\* C7: the clips of the video are, one for one and in order, the non-blank
\* lines of the script, trimmed: clip i shows the words of line i.
C7_ClipsFollowScript ==
    \A s \in Sessions :
        final[s] # Nothing =>
            LET want == NonBlankTrimmed(script[s]) IN
            /\ Len(final[s].clips) = Len(want)
            /\ \A i \in 1..Len(want) :
                  WordsOfLines(final[s].clips[i].frame.lines) = SplitWords(want[i], <<>>)

\* a finished run whose two clips show different lines
C7_Witness ==
    /\ pc[1] = "done"
    /\ Len(final[1].clips) = 2
    /\ final[1].clips[1].frame.lines # final[1].clips[2].frame.lines

=============================================================================
